---- MODULE Spec2Model ----
(***************************************************************************)
(* The bytecode virtual machine of Mufi-Lang (src/src/vm.c, src/src/vm.h): *)
(* the fetch-decode-execute loop run(), its operand stack, the globals     *)
(* table, the error reporter runtimeError() and the driver interpret().    *)
(*                                                                         *)
(* One action models one whole iteration of the loop of run(): the fetch   *)
(* of the opcode byte, the decoding of its operand and the body of its     *)
(* case, every push, pop, table call and error report included.            *)
(*                                                                         *)
(* Memory is modelled as the layout of the struct VM gives it:             *)
(*   chunk, ip, stack[STACK_MAX], stackTop.                                *)
(* stackTop is the index (vm.stackTop - vm.stack); push and pop move it    *)
(* without any check. A read outside the written slots yields any value.   *)
(* A write to slot -1 lands on chunk and ip, a write to slot STACK_MAX     *)
(* lands on stackTop itself, and any other write outside the array lands   *)
(* on memory outside the VM: each is undefined behaviour and is modelled   *)
(* as the choice among what a build can do with it.                        *)
(***************************************************************************)
EXTENDS Integers, Sequences, FiniteSets, TLC

(* ------------------------------- bounds ------------------------------- *)

\* Instructions of a compiled chunk before its closing OP_RETURN.
MaxInstr == 2
\* Calls of interpret() in one life of the process.
MaxRuns == 2
\* Instructions followed after a push has overwritten ip (the loop then
\* fetches from wherever the written bytes point).
MaxStray == 0

(* ------------------------------ constants ----------------------------- *)

STACK_MAX == 256

\* The opcodes, numbered in the order of the cases of the switch of run().
OP_CONSTANT == 0
OP_NIL == 1
OP_TRUE == 2
OP_FALSE == 3
OP_POP == 4
OP_GET_GLOBAL == 5
OP_DEFINE_GLOBAL == 6
OP_SET_GLOBAL == 7
OP_EQUAL == 8
OP_GREATER == 9
OP_LESS == 10
OP_ADD == 11
OP_SUBTRACT == 12
OP_MULTIPLY == 13
OP_DIVIDE == 14
OP_NOT == 15
OP_NEGATE == 16
OP_PRINT == 17
OP_RETURN == 18

\* Every byte value the switch has a case for.
Opcodes == OP_CONSTANT .. OP_RETURN

\* The limits of the C type int (32 bits), in which BINARY_OP computes.
INT_MAX == 2147483647
INT_MIN == -INT_MAX - 1

(* ------------------------------- values ------------------------------- *)

\* A Value is a tag and a payload. The payload is a sequence of integers:
\* <<0>> for nil, <<0>> or <<1>> for a bool, <<n>> for an int, the reduced
\* fraction <<num, den>> for a double (den = 0: <<1,0>> is +inf, <<-1,0>> is
\* -inf, <<0,0>> is NaN), and the characters of the string for an object.
NIL_VAL == [type |-> "VAL_NIL", as |-> <<0>>]
BOOL_VAL(b) == [type |-> "VAL_BOOL", as |-> <<IF b THEN 1 ELSE 0>>]
INT_VAL(n) == [type |-> "VAL_INT", as |-> <<n>>]
DOUBLE_VAL(d) == [type |-> "VAL_DOUBLE", as |-> d]
OBJ_VAL(chars) == [type |-> "VAL_OBJ", as |-> chars]

IS_NIL(v) == v.type = "VAL_NIL"
IS_BOOL(v) == v.type = "VAL_BOOL"
IS_INT(v) == v.type = "VAL_INT"
IS_DOUBLE(v) == v.type = "VAL_DOUBLE"
IS_STRING(v) == v.type = "VAL_OBJ"

AS_INT(v) == v.as[1]
AS_DOUBLE(v) == v.as
AS_STRING(v) == v.as

\* The slot of the globals table that holds no entry.
NoValue == [type |-> "NONE", as |-> <<>>]

Abs(n) == IF n < 0 THEN -n ELSE n
Min(a, b) == IF a < b THEN a ELSE b
Max(a, b) == IF a < b THEN b ELSE a

RECURSIVE Gcd(_, _)
Gcd(a, b) == IF b = 0 THEN a ELSE Gcd(b, a % b)

\* The double num/den as a reduced fraction with a positive denominator.
Fraction(num, den) ==
    IF den = 0 THEN <<IF num > 0 THEN 1 ELSE IF num < 0 THEN -1 ELSE 0, 0>>
    ELSE LET g == Gcd(Abs(num), Abs(den))
             s == IF den < 0 THEN -1 ELSE 1
         IN <<(s * num) \div g, (s * den) \div g>>

IsNaN(d) == d[2] = 0 /\ d[1] = 0
IsInf(d) == d[2] = 0 /\ d[1] # 0

\* a op b on two doubles, as IEEE-754 computes it on the values the model
\* reaches (each exactly representable; signed zeros are not told apart).
DoubleOp(op, a, b) ==
    IF IsNaN(a) \/ IsNaN(b) THEN <<0, 0>>
    ELSE CASE op = OP_ADD ->
                IF IsInf(a) /\ IsInf(b) THEN (IF a = b THEN a ELSE <<0, 0>>)
                ELSE IF IsInf(a) THEN a
                ELSE IF IsInf(b) THEN b
                ELSE Fraction(a[1] * b[2] + b[1] * a[2], a[2] * b[2])
           [] op = OP_SUBTRACT ->
                IF IsInf(a) /\ IsInf(b) THEN (IF a = b THEN <<0, 0>> ELSE a)
                ELSE IF IsInf(a) THEN a
                ELSE IF IsInf(b) THEN <<-b[1], 0>>
                ELSE Fraction(a[1] * b[2] - b[1] * a[2], a[2] * b[2])
           [] op = OP_MULTIPLY -> Fraction(a[1] * b[1], a[2] * b[2])
           [] op = OP_DIVIDE ->
                IF IsInf(a) /\ IsInf(b) THEN <<0, 0>>
                ELSE IF IsInf(b) THEN <<0, 1>>
                ELSE Fraction(a[1] * b[2] * (IF b[1] < 0 THEN -1 ELSE 1),
                              a[2] * Abs(b[1]))

\* The quotient of C, which truncates toward zero, for b # 0 and a
\* quotient that int holds; INT_MIN, whose magnitude int does not hold, is
\* divided as -(INT_MAX + 1).
CDiv(a, b) ==
    IF b = INT_MIN THEN (IF a = INT_MIN THEN 1 ELSE 0)
    ELSE IF b = 1 THEN a
    ELSE IF a = INT_MIN
    THEN LET q == INT_MAX \div Abs(b)
             mag == IF (INT_MAX % Abs(b)) + 1 = Abs(b) THEN q + 1 ELSE q
         IN IF b > 0 THEN -mag ELSE mag
    ELSE LET q == Abs(a) \div Abs(b)
         IN IF (a < 0) = (b < 0) THEN q ELSE -q

\* Whether a op b is representable in int, decided without leaving int.
IntInRange(op, a, b) ==
    CASE op = OP_ADD ->
           IF b >= 0 THEN a <= INT_MAX - b ELSE a >= INT_MIN - b
      [] op = OP_SUBTRACT ->
           IF b >= 0 THEN a >= INT_MIN + b ELSE a <= INT_MAX + b
      [] op = OP_MULTIPLY ->
           \/ a = 0 \/ b = 0
           \/ a # INT_MIN /\ b # INT_MIN /\ Abs(a) <= INT_MAX \div Abs(b)
      [] op = OP_DIVIDE -> b # 0 /\ ~(a = INT_MIN /\ b = -1)

\* The values an overflowing int expression is seen to take.
AnyInt == {INT_MIN, -1, 0, 1, INT_MAX}

\* a op b in the C type int: the exact result when int holds it. Signed
\* overflow, a division by zero and INT_MIN / -1 are undefined: any int.
IntOp(op, a, b) ==
    IF IntInRange(op, a, b)
    THEN {CASE op = OP_ADD -> a + b
            [] op = OP_SUBTRACT -> a - b
            [] op = OP_MULTIPLY -> a * b
            [] op = OP_DIVIDE -> CDiv(a, b)}
    ELSE AnyInt

\* Whether a op b in int can kill the process: the division instruction of
\* some targets traps on a zero divisor and on INT_MIN / -1.
IntTraps(op, a, b) == op = OP_DIVIDE /\ ~IntInRange(op, a, b)

\* value.c: two values are equal iff same variant and same payload.
valuesEqual(a, b) == a.type = b.type /\ a.as = b.as

\* A variant of isFalsey() in which the int 0 is falsey as well.
isFalsey_ZeroFalsey(value) ==
    \/ IS_NIL(value)
    \/ IS_BOOL(value) /\ value.as[1] = 0
    \/ IS_INT(value) /\ AS_INT(value) = 0

\* isFalsey(): IS_NIL(value) || (IS_BOOL(value) && !AS_BOOL(value)).
isFalsey(value) == IS_NIL(value) \/ (IS_BOOL(value) /\ value.as[1] = 0)


\* The bytes the bool member of the union can hold when the value was stored
\* as variant v (AS_BOOL reads value.as.boolean whatever the tag is): the
\* stored byte of a bool, the low byte of an int; the low byte of a double
\* is 0 when its mantissa is short; the bytes of nil and of an object
\* pointer are not fixed by the source.
AnyByte == {0, 1, 2}
BoolBytes(v) ==
    CASE IS_BOOL(v) -> {v.as[1]}
      [] IS_INT(v) -> {v.as[1] % 256}
      [] IS_DOUBLE(v) -> IF v.as[2] \in {1, 2, 4} THEN {0} ELSE AnyByte
      [] OTHER -> AnyByte

\* BINARY_OP_COMPARISON: bool b = AS_BOOL(pop()); bool a = AS_BOOL(pop());
\* a op b. A bool whose byte is neither 0 nor 1 is undefined: a build
\* compares the bytes as they are, or as 1.
BoolCompare(op, x, y) == IF op = OP_GREATER THEN x > y ELSE x < y
BINARY_OP_COMPARISON(op, a, b) ==
    LET norm(x) == IF x = 0 THEN 0 ELSE 1
    IN {BoolCompare(op, x, y) : x \in BoolBytes(a), y \in BoolBytes(b)}
       \cup {BoolCompare(op, norm(x), norm(y)) :
                x \in BoolBytes(a), y \in BoolBytes(b)}

(* ---------------------------- bytecode units -------------------------- *)

\* The constant pool of the chunks explored, and the two global names. The
\* nonzero int has a low byte of 0 and a square that int does not hold.
Pool == <<INT_VAL(0), INT_VAL(65536), DOUBLE_VAL(<<2, 1>>),
          OBJ_VAL(<<120>>), OBJ_VAL(<<121>>)>>
ConstIdx == 0 .. Len(Pool) - 1
NameIdx == {i \in ConstIdx : IS_STRING(Pool[i + 1])}
Names == {AS_STRING(Pool[i + 1]) : i \in NameIdx}

\* What a read of memory that holds no pushed value can yield.
AnyValue == {NIL_VAL, INT_VAL(3), OBJ_VAL(<<120>>)}

OperandOps == {OP_GET_GLOBAL, OP_DEFINE_GLOBAL, OP_SET_GLOBAL}

\* One instruction as the compiler emits it: the opcode byte, and for
\* OP_CONSTANT and the global opcodes one byte that indexes the pool.
Instructions ==
    {<<OP_CONSTANT, i>> : i \in ConstIdx}
    \cup {<<op, i>> : op \in OperandOps, i \in NameIdx}
    \cup {<<op>> : op \in Opcodes \ ({OP_CONSTANT} \cup OperandOps)}

RECURSIVE Programs(_)
Programs(n) ==
    IF n = 0 THEN {<<>>}
    ELSE LET P == Programs(n - 1)
         IN P \cup {p \o i : p \in P, i \in Instructions}

\* The line table explored: the byte at offset k is on line k + 1, so that
\* a reported line names one byte of the chunk.
Lines(n) == [k \in 1 .. n |-> k]

\* A chunk: the program closed by the OP_RETURN the compiler always emits.
Chunk(p) ==
    [code |-> p \o <<OP_RETURN>>, constants |-> Pool,
     lines |-> Lines(Len(p) + 1)]

\* The chunk of an expression that fills the stack: STACK_MAX pushes.
Filler == Chunk([k \in 1 .. STACK_MAX |-> OP_NIL])

\* The chunk of a declaration of the global named by pool entry 3 followed
\* by an expression that reads it STACK_MAX + 1 times before any operator
\* applies: one read more than the stack has slots.
Overfill ==
    Chunk(<<OP_NIL, OP_DEFINE_GLOBAL, 3>>
          \o [k \in 1 .. 2 * (STACK_MAX + 1) |->
                 IF k % 2 = 1 THEN OP_GET_GLOBAL ELSE 3])

\* The chunk of a declaration of the global named by pool entry 3 followed
\* by a read of the global named by pool entry 4.
DeclareThenRead ==
    Chunk(<<OP_NIL, OP_DEFINE_GLOBAL, 3, OP_GET_GLOBAL, 4>>)

\* The chunks compile() hands to run(): every program of at most MaxInstr
\* instructions, the filler, the overfilling chunk and the declaration
\* followed by a read.
Chunks ==
    {Chunk(p) : p \in Programs(MaxInstr)}
    \cup {Filler, Overfill, DeclareThenRead}

\* The chunk after freeChunk().
FreedChunk == [code |-> <<>>, constants |-> <<>>, lines |-> <<>>]


(* ------------------------------- state -------------------------------- *)

VARIABLES
    chunk,      \* vm.chunk: the bytecode unit being run
    ip,         \* vm.ip, as the offset vm.ip - vm.chunk->code
    ipValid,    \* FALSE once a push to slot -1 has overwritten chunk and ip
    stack,      \* vm.stack: the slots below stackTop that lie in the array
    stackTop,   \* vm.stackTop, as the index vm.stackTop - vm.stack
    globals,    \* vm.globals: name -> value, NoValue where there is no entry
    out,        \* standard output: the values printValue() has written
    err,        \* standard error: the last report of runtimeError()
    result,     \* what the last interpret() returned, "NONE" while it runs
    pc,         \* "idle": outside interpret(); "run": in the loop of run();
                \* "crashed": the process was killed by a trap
    runs,       \* calls of interpret() so far
    stray,      \* instructions fetched through an overwritten ip
    last        \* the instruction the loop executed last (history)

vars == <<chunk, ip, ipValid, stack, stackTop, globals, out, err, result,
          pc, runs, stray, last>>

\* No instruction yet in this call of interpret().
NoInstr == [op |-> -1, k |-> 0, top |-> 0, args |-> <<>>,
            name |-> <<>>, fault |-> FALSE, valid |-> TRUE]

NoReport == [msg |-> "", line |-> 0]

\* initTable(): a table with no entry.
initTable == [n \in Names |-> NoValue]

\* initVM(): resetStack() and the two empty tables.
Init ==
    /\ chunk = FreedChunk
    /\ ip = 0
    /\ ipValid = TRUE
    /\ stack = <<>>
    /\ stackTop = 0
    /\ globals = initTable
    /\ out = <<>>
    /\ err = NoReport
    /\ result = "NONE"
    /\ pc = "idle"
    /\ runs = 0
    /\ stray = 0
    /\ last = NoInstr

(* ------------------------------ the tables ---------------------------- *)

\* tableGet(&table, key, &value): whether key has an entry, and its value.
tableGet(table, key) ==
    [found |-> table[key] # NoValue, value |-> table[key]]

\* tableSet(&table, key, value): binds key, and returns whether key is new.
tableSet(table, key, value) ==
    [isNewKey |-> table[key] = NoValue,
     table |-> [table EXCEPT ![key] = value]]

\* tableDelete(&table, key): key has no entry afterwards.
tableDelete(table, key) == [table EXCEPT ![key] = NoValue]

(* ------------------------------ the stack ----------------------------- *)

\* The slots of stk that lie below index top.
Live(stk, top) == SubSeq(stk, 1, Min(Len(stk), Max(top, 0)))

\* What a read of slot idx yields: the value pushed there, or whatever the
\* memory holds when the slot is outside the slots written.
Slot(stk, idx) ==
    IF idx >= 0 /\ idx < Len(stk) THEN {stk[idx + 1]} ELSE AnyValue

\* peek(distance): vm.stackTop[-1 - distance].
peek(distance) == Slot(stack, stackTop - 1 - distance)

\* What stackTop is seen to hold after a push has written over it.
GarbageTops == {-2, STACK_MAX + 2}

\* The machine after the pops of an instruction: stackTop moved, no write.
Popped(stk, top) ==
    [stack |-> Live(stk, top), stackTop |-> top, ipValid |-> TRUE,
     crashed |-> FALSE]

Trapped(stk, top) ==
    [stack |-> stk, stackTop |-> top, ipValid |-> TRUE, crashed |-> TRUE]

\* push(value) with stackTop at index top: *vm.stackTop = value;
\* vm.stackTop++. Inside the array it stores and increments. Slot -1 is the
\* memory of chunk and ip. Slot STACK_MAX is the memory of stackTop itself:
\* the increment applies to the old pointer or to the bytes just written.
\* Any other slot is memory outside the VM: the store traps or is not seen.
push(stk, top, value) ==
    CASE top >= 0 /\ top < STACK_MAX ->
           {[stack |-> Append(Live(stk, top), value), stackTop |-> top + 1,
             ipValid |-> TRUE, crashed |-> FALSE]}
      [] top = -1 ->
           {[stack |-> <<>>, stackTop |-> 0, ipValid |-> FALSE,
             crashed |-> FALSE]}
      [] top = STACK_MAX ->
           {[stack |-> Live(stk, t), stackTop |-> t, ipValid |-> TRUE,
             crashed |-> FALSE] : t \in {top + 1} \cup GarbageTops}
           \cup {Trapped(stk, top)}
      [] OTHER ->
           {[stack |-> Live(stk, top + 1), stackTop |-> top + 1,
             ipValid |-> TRUE, crashed |-> FALSE], Trapped(stk, top)}

(* ----------------------------- the decoder ---------------------------- *)

\* switch (instruction = READ_BYTE()): the loop is at an instruction whose
\* opcode byte is op. Through an overwritten ip any byte can be fetched.
Fetches(op) ==
    /\ pc = "run"
    /\ IF ipValid THEN chunk.code[ip + 1] = op ELSE stray < MaxStray

\* READ_CONSTANT(): the pool entry the operand byte names.
READ_CONSTANT ==
    IF ipValid THEN {chunk.constants[chunk.code[ip + 2] + 1]} ELSE AnyValue

\* READ_STRING(): AS_STRING(READ_CONSTANT()), the characters of the name.
READ_STRING ==
    IF ipValid THEN {AS_STRING(chunk.constants[chunk.code[ip + 2] + 1])}
    ELSE Names

\* The lines a lookup through an overwritten chunk pointer can yield.
AnyLine == {-1, 1}

\* vm.chunk->lines[vm.ip - vm.chunk->code - 1], read by runtimeError() when
\* the faulting instruction has had n bytes fetched.
ErrorLine(n) ==
    IF ipValid THEN {chunk.lines[(ip + n - 1) + 1]} ELSE AnyLine


(* ------------------------------ the driver ---------------------------- *)

\* compile(source, &chunk): a chunk, or failure.
CompileFailed == [code |-> <<>>, constants |-> <<>>, lines |-> <<-1>>]
compile == Chunks \cup {CompileFailed}

\* A variant of interpret() whose failure path also resets the stack, as
\* the runtime error path does (used to test the sensitivity of properties).
interpret_ResetsStack(c) ==
    /\ pc = "idle"
    /\ runs < MaxRuns
    /\ runs' = runs + 1
    /\ last' = NoInstr
    /\ IF c = CompileFailed
       THEN /\ result' = "INTERPRET_COMPILE_ERROR"
            /\ stack' = <<>>
            /\ stackTop' = 0
            /\ UNCHANGED <<chunk, ip, ipValid, globals, out, err, pc, stray>>
       ELSE /\ chunk' = c
            /\ ip' = 0
            /\ ipValid' = TRUE
            /\ stray' = 0
            /\ result' = "NONE"
            /\ pc' = "run"
            /\ UNCHANGED <<stack, stackTop, globals, out, err>>

\* A variant of interpret() that starts every run on an empty globals
\* table.
interpret_InitsGlobals(c) ==
    /\ pc = "idle"
    /\ runs < MaxRuns
    /\ runs' = runs + 1
    /\ last' = NoInstr
    /\ IF c = CompileFailed
       THEN /\ result' = "INTERPRET_COMPILE_ERROR"
            /\ UNCHANGED <<chunk, ip, ipValid, stack, stackTop, globals, out,
                           err, pc, stray>>
       ELSE /\ chunk' = c
            /\ ip' = 0
            /\ ipValid' = TRUE
            /\ stray' = 0
            /\ result' = "NONE"
            /\ pc' = "run"
            /\ globals' = initTable
            /\ UNCHANGED <<stack, stackTop, out, err>>

\* interpret(source): on a compile failure frees the chunk and returns
\* INTERPRET_COMPILE_ERROR; otherwise points vm.chunk and vm.ip at the chunk
\* and enters run(). c is what compile() produced.
interpret(c) ==
    /\ pc = "idle"
    /\ runs < MaxRuns
    /\ runs' = runs + 1
    /\ last' = NoInstr
    /\ IF c = CompileFailed
       THEN /\ result' = "INTERPRET_COMPILE_ERROR"
            /\ UNCHANGED <<chunk, ip, ipValid, stack, stackTop, globals, out,
                           err, pc, stray>>
       ELSE /\ chunk' = c
            /\ ip' = 0
            /\ ipValid' = TRUE
            /\ stray' = 0
            /\ result' = "NONE"
            /\ pc' = "run"
            /\ UNCHANGED <<stack, stackTop, globals, out, err>>

Interpret == \E c \in compile : interpret(c)

(* ----------------------- the loop of run(): helpers ------------------- *)

\* The variant of the operand at distance d below the top, when that slot
\* holds a pushed value.
Seen(d) ==
    LET idx == stackTop - 1 - d
    IN IF idx >= 0 /\ idx < Len(stack) THEN stack[idx + 1].type ELSE "UNKNOWN"

\* The record of the instruction being executed: its opcode, its offset,
\* stackTop before it, the variants of its nargs operands (lowest first),
\* the global it names, and whether it raised a runtime error.
Instr(op, nargs, name, fault) ==
    [op |-> op, k |-> ip, top |-> stackTop,
     args |-> [i \in 1 .. nargs |-> Seen(nargs - i)], name |-> name,
     fault |-> fault, valid |-> ipValid]

\* One iteration that ends at its break: n bytes were fetched and the stack
\* is left as m, the outcome of the pops and of the push of the case.
Break(op, n, m, nargs, name) ==
    /\ ip' = ip + n
    /\ stack' = m.stack
    /\ stackTop' = m.stackTop
    /\ ipValid' = (ipValid /\ m.ipValid)
    /\ pc' = IF m.crashed THEN "crashed" ELSE "run"
    /\ stray' = IF ipValid THEN stray ELSE stray + 1
    /\ last' = Instr(op, nargs, name, FALSE)
    /\ UNCHANGED <<chunk, result, runs, err>>

\* A variant of resetStack() that leaves the stack as it is.
resetStack_Missing == [stack |-> stack, stackTop |-> stackTop]

\* resetStack(): vm.stackTop = vm.stack.
resetStack == [stack |-> <<>>, stackTop |-> 0]

\* runtimeError(format, ...) followed by return INTERPRET_RUNTIME_ERROR, and
\* the freeChunk() of interpret(): the message and the line of the byte
\* before ip are reported, then the stack is reset.
runtimeError(op, n, msg, nargs, name) ==
    /\ \E line \in ErrorLine(n) : err' = [msg |-> msg, line |-> line]
    /\ stack' = resetStack.stack
    /\ stackTop' = resetStack.stackTop
    /\ ip' = ip + n
    /\ stray' = IF ipValid THEN stray ELSE stray + 1
    /\ result' = "INTERPRET_RUNTIME_ERROR"
    /\ pc' = "idle"
    /\ chunk' = FreedChunk
    /\ last' = Instr(op, nargs, name, TRUE)
    /\ UNCHANGED <<ipValid, runs>>

TypeMismatch2 == "Operands must be either both integer or both double numbers."
TypeMismatch1 == "Operand must be a number (int/double)."
UndefinedVariable == "Undefined variable '%s'."

(* ------------------------- the cases of the switch -------------------- *)

\* case OP_CONSTANT: push(READ_CONSTANT()).
OpConstant ==
    /\ Fetches(OP_CONSTANT)
    /\ \E constant \in READ_CONSTANT :
         \E m \in push(stack, stackTop, constant) :
            Break(OP_CONSTANT, 2, m, 0, <<>>)
    /\ UNCHANGED <<globals, out>>

\* case OP_NIL, OP_TRUE, OP_FALSE: push the literal.
PushLiteral(op, value) ==
    /\ Fetches(op)
    /\ \E m \in push(stack, stackTop, value) : Break(op, 1, m, 0, <<>>)
    /\ UNCHANGED <<globals, out>>

OpNil == PushLiteral(OP_NIL, NIL_VAL)
OpTrue == PushLiteral(OP_TRUE, BOOL_VAL(TRUE))
OpFalse == PushLiteral(OP_FALSE, BOOL_VAL(FALSE))

\* case OP_POP: pop().
OpPop ==
    /\ Fetches(OP_POP)
    /\ Break(OP_POP, 1, Popped(stack, stackTop - 1), 0, <<>>)
    /\ UNCHANGED <<globals, out>>

\* A variant of case OP_GET_GLOBAL that reads a name with no entry as nil.
OpGetGlobal_NilOnMiss ==
    /\ Fetches(OP_GET_GLOBAL)
    /\ \E name \in READ_STRING :
         LET got == tableGet(globals, name)
             value == IF got.found THEN got.value ELSE NIL_VAL
         IN \E m \in push(stack, stackTop, value) :
               Break(OP_GET_GLOBAL, 2, m, 0, name)
    /\ UNCHANGED <<globals, out>>

\* case OP_GET_GLOBAL: the value of the name is pushed, or the name has no
\* entry and the run ends with a runtime error.
OpGetGlobal ==
    /\ Fetches(OP_GET_GLOBAL)
    /\ \E name \in READ_STRING :
         LET got == tableGet(globals, name)
         IN IF ~got.found
            THEN runtimeError(OP_GET_GLOBAL, 2, UndefinedVariable, 0, name)
            ELSE \E m \in push(stack, stackTop, got.value) :
                    Break(OP_GET_GLOBAL, 2, m, 0, name)
    /\ UNCHANGED <<globals, out>>

\* case OP_DEFINE_GLOBAL: tableSet(&vm.globals, name, peek(0)); pop().
OpDefineGlobal ==
    /\ Fetches(OP_DEFINE_GLOBAL)
    /\ \E name \in READ_STRING : \E v \in peek(0) :
         /\ globals' = tableSet(globals, name, v).table
         /\ Break(OP_DEFINE_GLOBAL, 2, Popped(stack, stackTop - 1), 1,
                  name)
    /\ UNCHANGED out

\* A variant of the undo of OP_SET_GLOBAL without the tableDelete().
SetGlobalUndo_Missing(table, name) == table

\* The table OP_SET_GLOBAL leaves when tableSet() reports a new key.
SetGlobalUndo(table, name) == tableDelete(table, name)

\* A variant of case OP_SET_GLOBAL that pops the value it has assigned, as
\* OP_DEFINE_GLOBAL does.
OpSetGlobal_Pops ==
    /\ Fetches(OP_SET_GLOBAL)
    /\ \E name \in READ_STRING : \E v \in peek(0) :
         LET set == tableSet(globals, name, v)
         IN IF set.isNewKey
            THEN /\ globals' = SetGlobalUndo(set.table, name)
                 /\ runtimeError(OP_SET_GLOBAL, 2, UndefinedVariable, 1,
                                 name)
            ELSE /\ globals' = set.table
                 /\ Break(OP_SET_GLOBAL, 2, Popped(stack, stackTop - 1), 1,
                          name)
    /\ UNCHANGED out

\* case OP_SET_GLOBAL: tableSet(&vm.globals, name, peek(0)); when the key is
\* new it is deleted again and the run ends with a runtime error.
OpSetGlobal ==
    /\ Fetches(OP_SET_GLOBAL)
    /\ \E name \in READ_STRING : \E v \in peek(0) :
         LET set == tableSet(globals, name, v)
         IN IF set.isNewKey
            THEN /\ globals' = SetGlobalUndo(set.table, name)
                 /\ runtimeError(OP_SET_GLOBAL, 2, UndefinedVariable, 1,
                                 name)
            ELSE /\ globals' = set.table
                 /\ Break(OP_SET_GLOBAL, 2, Popped(stack, stackTop), 1,
                          name)
    /\ UNCHANGED out

\* case OP_EQUAL: b = pop(); a = pop(); push(BOOL_VAL(valuesEqual(a, b))).
OpEqual ==
    /\ Fetches(OP_EQUAL)
    /\ \E b \in peek(0) : \E a \in peek(1) :
         \E m \in push(stack, stackTop - 2, BOOL_VAL(valuesEqual(a, b))) :
            Break(OP_EQUAL, 1, m, 2, <<>>)
    /\ UNCHANGED <<globals, out>>

\* A variant of the comparison cases that tests the variants of the
\* operands as BINARY_OP does and reports a mismatch.
Comparison_Checked(op) ==
    /\ Fetches(op)
    /\ \E b \in peek(0) : \E a \in peek(1) :
         IF ~(IS_INT(b) /\ IS_INT(a)) /\ ~(IS_DOUBLE(b) /\ IS_DOUBLE(a))
         THEN runtimeError(op, 1, TypeMismatch2, 2, <<>>)
         ELSE \E r \in BINARY_OP_COMPARISON(op, a, b) :
                 \E m \in push(stack, stackTop - 2, BOOL_VAL(r)) :
                    Break(op, 1, m, 2, <<>>)
    /\ UNCHANGED <<globals, out>>

\* case OP_GREATER, OP_LESS: BINARY_OP_COMPARISON(>), (<).
Comparison(op) ==
    /\ Fetches(op)
    /\ \E b \in peek(0) : \E a \in peek(1) :
         \E r \in BINARY_OP_COMPARISON(op, a, b) :
            \E m \in push(stack, stackTop - 2, BOOL_VAL(r)) :
               Break(op, 1, m, 2, <<>>)
    /\ UNCHANGED <<globals, out>>

OpGreater == Comparison(OP_GREATER)
OpLess == Comparison(OP_LESS)

\* A variant of BINARY_OP that promotes an int to double when the other
\* operand is a double.
BINARY_OP_Promoting(op, a, b) ==
    LET num(x) == IS_INT(x) \/ IS_DOUBLE(x)
        dbl(x) == IF IS_INT(x) THEN <<AS_INT(x), 1>> ELSE AS_DOUBLE(x)
    IN IF IS_INT(b) /\ IS_INT(a)
       THEN [error |-> FALSE, traps |-> IntTraps(op, AS_INT(a), AS_INT(b)),
             values |-> {INT_VAL(r) : r \in IntOp(op, AS_INT(a), AS_INT(b))}]
       ELSE IF num(b) /\ num(a)
       THEN [error |-> FALSE, traps |-> FALSE,
             values |-> {DOUBLE_VAL(DoubleOp(op, dbl(a), dbl(b)))}]
       ELSE [error |-> TRUE, traps |-> FALSE, values |-> {}]

\* BINARY_OP(op) on the operands a (below) and b (on top): a runtime
\* error, or the values one of which is pushed and whether computing them
\* can trap.
BINARY_OP(op, a, b) ==
    IF IS_INT(b) /\ IS_INT(a)
    THEN [error |-> FALSE, traps |-> IntTraps(op, AS_INT(a), AS_INT(b)),
          values |-> {INT_VAL(r) : r \in IntOp(op, AS_INT(a), AS_INT(b))}]
    ELSE IF IS_DOUBLE(b) /\ IS_DOUBLE(a)
    THEN [error |-> FALSE, traps |-> FALSE,
          values |-> {DOUBLE_VAL(DoubleOp(op, AS_DOUBLE(a), AS_DOUBLE(b)))}]
    ELSE [error |-> TRUE, traps |-> FALSE, values |-> {}]

\* A variant of concatenate() that copies the operand popped first (b) in
\* front of the one popped second (a).
concatenate_Swapped(a, b) == OBJ_VAL(AS_STRING(b) \o AS_STRING(a))

\* concatenate(): the characters of a followed by those of b.
concatenate(a, b) == OBJ_VAL(AS_STRING(a) \o AS_STRING(b))

\* The case of OP_ADD: two strings are concatenated, else BINARY_OP(+).
AddOp(op, a, b) ==
    IF IS_STRING(b) /\ IS_STRING(a)
    THEN [error |-> FALSE, traps |-> FALSE, values |-> {concatenate(a, b)}]
    ELSE BINARY_OP(op, a, b)

\* case OP_ADD, OP_SUBTRACT, OP_MULTIPLY, OP_DIVIDE: r is what the case
\* computes from the two operands on top.
Arithmetic(op, a, b, r) ==
    IF r.error
    THEN runtimeError(op, 1, TypeMismatch2, 2, <<>>)
    ELSE \E m \in UNION {push(stack, stackTop - 2, v) : v \in r.values}
                      \cup (IF r.traps THEN {Trapped(stack, stackTop)}
                                       ELSE {}) :
            Break(op, 1, m, 2, <<>>)

OpAdd ==
    /\ Fetches(OP_ADD)
    /\ \E b \in peek(0) : \E a \in peek(1) :
         Arithmetic(OP_ADD, a, b, AddOp(OP_ADD, a, b))
    /\ UNCHANGED <<globals, out>>

BinaryOp(op) ==
    /\ Fetches(op)
    /\ \E b \in peek(0) : \E a \in peek(1) :
         Arithmetic(op, a, b, BINARY_OP(op, a, b))
    /\ UNCHANGED <<globals, out>>

OpSubtract == BinaryOp(OP_SUBTRACT)
OpMultiply == BinaryOp(OP_MULTIPLY)
OpDivide == BinaryOp(OP_DIVIDE)

\* case OP_NOT: push(BOOL_VAL(isFalsey(pop()))).
OpNot ==
    /\ Fetches(OP_NOT)
    /\ \E v \in peek(0) :
         \E m \in push(stack, stackTop - 1, BOOL_VAL(isFalsey(v))) :
            Break(OP_NOT, 1, m, 1, <<>>)
    /\ UNCHANGED <<globals, out>>

\* A variant of the test of OP_NEGATE with the negations dropped.
NegateRejects_Inverted(v) == IS_INT(v) \/ IS_DOUBLE(v)

\* The test of OP_NEGATE: !IS_INT(peek(0)) || !IS_DOUBLE(peek(0)).
NegateRejects(v) == ~IS_INT(v) \/ ~IS_DOUBLE(v)

\* The doubles AS_DOUBLE reads from a value: its payload when it is a
\* double, the bytes of another variant read as a double otherwise.
AnyDouble == {<<0, 1>>, <<2, 1>>, <<0, 0>>}
DoubleReads(v) == IF IS_DOUBLE(v) THEN {AS_DOUBLE(v)} ELSE AnyDouble

\* What OP_NEGATE pushes once its test has passed: -AS_INT of an int (the
\* negation of INT_MIN overflows), -AS_DOUBLE of anything else.
Negated(v) ==
    IF IS_INT(v)
    THEN {INT_VAL(r) : r \in IntOp(OP_SUBTRACT, 0, AS_INT(v))}
    ELSE {DOUBLE_VAL(<<-d[1], d[2]>>) : d \in DoubleReads(v)}

\* case OP_NEGATE.
OpNegate ==
    /\ Fetches(OP_NEGATE)
    /\ \E v \in peek(0) :
         IF NegateRejects(v)
         THEN runtimeError(OP_NEGATE, 1, TypeMismatch1, 1, <<>>)
         ELSE \E r \in Negated(v) :
                 \E m \in push(stack, stackTop - 1, r) :
                    Break(OP_NEGATE, 1, m, 1, <<>>)
    /\ UNCHANGED <<globals, out>>

\* case OP_PRINT: printValue(pop()); printf("\n").
OpPrint ==
    /\ Fetches(OP_PRINT)
    /\ \E v \in peek(0) :
         /\ out' = Append(out, v)
         /\ Break(OP_PRINT, 1, Popped(stack, stackTop - 1), 1, <<>>)
    /\ UNCHANGED globals

\* case OP_RETURN: return INTERPRET_OK, and the freeChunk() of interpret().
OpReturn ==
    /\ Fetches(OP_RETURN)
    /\ ip' = ip + 1
    /\ stray' = IF ipValid THEN stray ELSE stray + 1
    /\ result' = "INTERPRET_OK"
    /\ pc' = "idle"
    /\ chunk' = FreedChunk
    /\ last' = Instr(OP_RETURN, 0, <<>>, FALSE)
    /\ UNCHANGED <<ipValid, stack, stackTop, globals, out, err, runs>>

\* READ_BYTE() through an overwritten ip reads unmapped memory: a trap.
FetchTrap ==
    /\ ~ipValid
    /\ pc = "run"
    /\ pc' = "crashed"
    /\ UNCHANGED <<chunk, ip, ipValid, stack, stackTop, globals, out, err,
                   result, runs, stray, last>>

Next ==
    \/ Interpret
    \/ OpConstant \/ OpNil \/ OpTrue \/ OpFalse \/ OpPop
    \/ OpGetGlobal \/ OpDefineGlobal \/ OpSetGlobal
    \/ OpEqual \/ OpGreater \/ OpLess
    \/ OpAdd \/ OpSubtract \/ OpMultiply \/ OpDivide
    \/ OpNot \/ OpNegate \/ OpPrint \/ OpReturn
    \/ FetchTrap

Spec == Init /\ [][Next]_vars


(* ------------------------------ properties ---------------------------- *)

\* The step executes one instruction of the loop (to its break, to a
\* runtime error or into a trap).
Executes == pc = "run" /\ last' # last

\* The step executes one instruction to its end without a runtime error.
Completes == Executes /\ ~last'.fault /\ pc' # "crashed"

\* The step ends the run with the runtime error msg.
EndsWith(msg) ==
    /\ last'.fault
    /\ pc' = "idle"
    /\ result' = "INTERPRET_RUNTIME_ERROR"
    /\ err'.msg = msg

ArithmeticOps == {OP_ADD, OP_SUBTRACT, OP_MULTIPLY, OP_DIVIDE}

\* The change of depth the opcode table documents.
Delta(op) ==
    CASE op \in {OP_CONSTANT, OP_NIL, OP_TRUE, OP_FALSE, OP_GET_GLOBAL} -> 1
      [] op \in {OP_POP, OP_DEFINE_GLOBAL, OP_PRINT, OP_EQUAL, OP_GREATER,
                 OP_LESS} \cup ArithmeticOps -> -1
      [] op \in {OP_SET_GLOBAL, OP_NOT, OP_NEGATE, OP_RETURN} -> 0

\* C1 (stack balance): every instruction that executes without a runtime
\* error leaves stackTop at its value before plus the documented delta of
\* its opcode. Fails: a push on a full stack writes over stackTop.
C1_StackBalance ==
    [][Completes => stackTop' = stackTop + Delta(last'.op)]_vars

\* C2 (type-mismatch rejection): ADD, SUBTRACT, MULTIPLY or DIVIDE on an int
\* and a double, in either order, ends the run with the runtime error of
\* BINARY_OP and pushes nothing: the stack is left empty by the reset.
MixedOperands == {<<"VAL_INT", "VAL_DOUBLE">>, <<"VAL_DOUBLE", "VAL_INT">>}
C2_MixedArithmeticRejected ==
    [][(Executes /\ last'.op \in ArithmeticOps /\ last'.args \in MixedOperands)
          => (EndsWith(TypeMismatch2) /\ stack' = <<>> /\ stackTop' = 0)]_vars

\* C2 witness: an ADD has run on an int below a double and ended the run.
C2_Witness ==
    /\ last.op = OP_ADD
    /\ last.args = <<"VAL_INT", "VAL_DOUBLE">>
    /\ last.fault
    /\ result = "INTERPRET_RUNTIME_ERROR"

\* C3 (global assignment contract): SET_GLOBAL of a name with no binding
\* ends the run with the undefined-variable error; afterwards the name has
\* no binding and every other binding is as it was.
C3_SetUnboundGlobal ==
    [][(Executes /\ last'.op = OP_SET_GLOBAL
            /\ globals[last'.name] = NoValue)
          => /\ EndsWith(UndefinedVariable)
             /\ globals'[last'.name] = NoValue
             /\ \A n \in Names \ {last'.name} : globals'[n] = globals[n]]_vars

\* C3 witness: a SET_GLOBAL has failed while another global was bound.
C3_Witness ==
    /\ last.op = OP_SET_GLOBAL
    /\ last.fault
    /\ globals[last.name] = NoValue
    /\ \E n \in Names \ {last.name} : globals[n] # NoValue

\* C4 (error line attribution): a faulting instruction whose opcode byte is
\* at offset k reports the line of offset k. Fails for the two-byte
\* opcodes: the line reported is that of the operand byte at k + 1.
C4_ErrorLineOfOpcode ==
    [][(Executes /\ ipValid /\ last'.fault)
          => err'.line = chunk.lines[ip + 1]]_vars

\* C5 (stack reset on failure): whenever interpret() has returned
\* INTERPRET_RUNTIME_ERROR the operand stack is empty.
C5_StackEmptyAfterRuntimeError ==
    (pc = "idle" /\ result = "INTERPRET_RUNTIME_ERROR")
        => (stackTop = 0 /\ stack = <<>>)

\* C5 witness: a binary operator faulted on two operands it had only
\* peeked at, on a stack of depth 2, and the stack is empty.
C5_Witness ==
    /\ pc = "idle"
    /\ result = "INTERPRET_RUNTIME_ERROR"
    /\ last.fault
    /\ last.op \in ArithmeticOps
    /\ last.top = 2
    /\ stackTop = 0

\* C6 (NEGATE on a number): on an int or a double NEGATE raises no error,
\* keeps the depth and replaces the top by its negation. Fails: the test of
\* OP_NEGATE rejects every value.
C6_NegateNumber ==
    [][(Executes /\ last'.op = OP_NEGATE
            /\ last'.args \in {<<"VAL_INT">>, <<"VAL_DOUBLE">>})
          => /\ ~last'.fault
             /\ stackTop' = stackTop
             /\ SubSeq(stack', 1, stackTop - 1) = SubSeq(stack, 1, stackTop - 1)
             /\ stack'[stackTop] \in Negated(stack[stackTop])]_vars

\* C7 (NEGATE on a non-number): on nil, a bool or a string NEGATE ends the
\* run with its type error and pushes nothing.
C7_NegateNonNumber ==
    [][(Executes /\ last'.op = OP_NEGATE
            /\ last'.args \in {<<"VAL_NIL">>, <<"VAL_BOOL">>, <<"VAL_OBJ">>})
          => (EndsWith(TypeMismatch1) /\ stack' = <<>> /\ stackTop' = 0)]_vars

\* C7 witness: a NEGATE has run on a bool and ended the run.
C7_Witness ==
    /\ last.op = OP_NEGATE
    /\ last.args = <<"VAL_BOOL">>
    /\ last.fault
    /\ result = "INTERPRET_RUNTIME_ERROR"

\* No instruction executed from such a state crosses a bound of the stack:
\* its operands are pushed values and its push has room.
WithinStack == ipValid /\ stackTop >= 2 /\ stackTop < STACK_MAX

\* C8 (stop conditions): a run starts at offset 0 and every instruction
\* either goes on to the next one, or is an OP_RETURN that ends the run
\* with INTERPRET_OK, or faults and ends the run with
\* INTERPRET_RUNTIME_ERROR; outside a run no instruction is executed.
\* Stated for the instructions that stay within the stack. Fails: an int
\* division by zero ends the run in a trap, with neither result.
C8_StopConditions ==
    [][/\ (pc = "idle" /\ pc' = "run") => (ip' = 0 /\ last' = NoInstr)
       /\ pc = "idle" =>
             (stack' = stack /\ globals' = globals /\ out' = out)
       /\ (Executes /\ WithinStack) =>
             \/ /\ pc' = "run"
                /\ last'.op # OP_RETURN
                /\ ~last'.fault
                /\ result' = "NONE"
             \/ /\ pc' = "idle"
                /\ last'.op = OP_RETURN
                /\ ~last'.fault
                /\ result' = "INTERPRET_OK"
             \/ /\ pc' = "idle"
                /\ last'.fault
                /\ result' = "INTERPRET_RUNTIME_ERROR"]_vars

\* C9 (compile failure): when compile() fails, interpret() returns
\* INTERPRET_COMPILE_ERROR and the stack, the globals and the output are as
\* before the call; no instruction is executed.
C9_CompileErrorFrame ==
    [][(pc = "idle" /\ runs' # runs /\ result' = "INTERPRET_COMPILE_ERROR")
          => /\ pc' = "idle"
             /\ last' = NoInstr
             /\ stack' = stack
             /\ stackTop' = stackTop
             /\ globals' = globals
             /\ out' = out]_vars

\* C9 witness: interpret() has returned INTERPRET_COMPILE_ERROR on a VM
\* whose stack holds values.
C9_Witness ==
    /\ pc = "idle"
    /\ result = "INTERPRET_COMPILE_ERROR"
    /\ last = NoInstr
    /\ stackTop = 2
    /\ Len(stack) = 2

\* C10 (stack bounds): in every reachable state 0 <= stackTop <= STACK_MAX.
\* Fails: pop() and push() do not check the bounds.
C10_StackBounds == stackTop >= 0 /\ stackTop <= STACK_MAX

\* The operands of a binary instruction about to execute: a below b.
OperandA == stack[stackTop - 1]
OperandB == stack[stackTop]

\* The step replaces the top n values of the stack by v and leaves the
\* values below them as they were.
Replaces(n, v) ==
    /\ stackTop' = stackTop - n + 1
    /\ Len(stack') = stackTop'
    /\ SubSeq(stack', 1, stackTop - n) = SubSeq(stack, 1, stackTop - n)
    /\ stackTop' >= 1
    /\ stack'[stackTop'] = v

\* C11 (string concatenation): ADD on two strings, a below b, pops both and
\* pushes one string whose characters are those of a followed by those of
\* b, of length length(a) + length(b); it raises no error.
C11_Concatenation ==
    [][(Executes /\ last'.op = OP_ADD
            /\ last'.args = <<"VAL_OBJ", "VAL_OBJ">>)
          => /\ Completes
             /\ Replaces(2, OBJ_VAL(AS_STRING(OperandA) \o AS_STRING(OperandB)))
             /\ Len(AS_STRING(stack'[stackTop'])) =
                   Len(AS_STRING(OperandA)) + Len(AS_STRING(OperandB))]_vars

\* C11 witness: an ADD has concatenated "x" below "y" into "xy".
C11_Witness ==
    /\ last.op = OP_ADD
    /\ last.args = <<"VAL_OBJ", "VAL_OBJ">>
    /\ ~last.fault
    /\ stackTop >= 1 /\ Len(stack) = stackTop
    /\ stack[stackTop] = OBJ_VAL(<<120, 121>>)

GlobalWrites == {OP_DEFINE_GLOBAL, OP_SET_GLOBAL}

\* C12 (define/get round trip): DEFINE_GLOBAL never raises a runtime error
\* and binds its name to the value on top, bound before or not; a binding
\* changes only at a DEFINE_GLOBAL or SET_GLOBAL of its name; and
\* GET_GLOBAL of a bound name pushes exactly the value bound. Hence a
\* GET_GLOBAL of x that follows a DEFINE_GLOBAL of x with v on top, with no
\* DEFINE_GLOBAL or SET_GLOBAL of x in between, pushes v. Stated for a
\* GET_GLOBAL that starts with stackTop at or above the base. Fails: on a
\* full stack the push of GET_GLOBAL writes over stackTop.
C12_DefineGetRoundTrip ==
    [][/\ (Executes /\ last'.op = OP_DEFINE_GLOBAL) => Completes
       /\ (Executes /\ last'.op = OP_DEFINE_GLOBAL
               /\ last'.args[1] # "UNKNOWN")
             => globals'[last'.name] = OperandB
       /\ \A n \in Names :
             globals'[n] # globals[n]
                => (Executes /\ last'.op \in GlobalWrites /\ last'.name = n)
       /\ (Executes /\ last'.op = OP_GET_GLOBAL /\ stackTop >= 0
               /\ globals[last'.name] # NoValue)
             => (Completes /\ Replaces(0, globals[last'.name]))]_vars

\* C13 (GET_GLOBAL on an unbound name): GET_GLOBAL of a name with no
\* binding ends the run with the undefined-variable error and pushes
\* nothing (the stack is left empty by the reset); GET_GLOBAL, failing or
\* not, leaves every binding as it was.
C13_GetUnboundGlobal ==
    [][/\ (Executes /\ last'.op = OP_GET_GLOBAL
               /\ globals[last'.name] = NoValue)
             => (EndsWith(UndefinedVariable) /\ stack' = <<>> /\ stackTop' = 0)
       /\ (Executes /\ last'.op = OP_GET_GLOBAL) => globals' = globals]_vars

\* C13 witness: a GET_GLOBAL of an unbound name has ended the run on a
\* stack that held a value, while the other global was bound.
C13_Witness ==
    /\ last.op = OP_GET_GLOBAL
    /\ last.fault
    /\ last.top >= 1
    /\ result = "INTERPRET_RUNTIME_ERROR"
    /\ globals[last.name] = NoValue
    /\ \E n \in Names \ {last.name} : globals[n] # NoValue

\* a > b (OP_GREATER) or a < b (OP_LESS) under the numeric order of two
\* ints or of two doubles; a comparison with NaN is false.
NumericOrder(op, a, b) ==
    IF IS_INT(a)
    THEN BoolCompare(op, AS_INT(a), AS_INT(b))
    ELSE LET x == AS_DOUBLE(a)
             y == AS_DOUBLE(b)
         IN IF IsNaN(x) \/ IsNaN(y) THEN FALSE
            ELSE IF IsInf(x) /\ IsInf(y) THEN BoolCompare(op, x[1], y[1])
            ELSE BoolCompare(op, x[1] * y[2], y[1] * x[2])

SameNumeric == {<<"VAL_INT", "VAL_INT">>, <<"VAL_DOUBLE", "VAL_DOUBLE">>}

\* C14 (numeric ordering): GREATER and LESS on two operands of the same
\* numeric variant, a below b, replace them by Bool(a > b) and Bool(a < b)
\* under the numeric order. Fails: the operands are read through AS_BOOL,
\* so the bytes of their bool member are compared.
C14_NumericComparison ==
    [][(Executes /\ last'.op \in {OP_GREATER, OP_LESS}
            /\ last'.args \in SameNumeric)
          => /\ Completes
             /\ Replaces(2, BOOL_VAL(NumericOrder(last'.op, OperandA,
                                                  OperandB)))]_vars

\* C15 (SET_GLOBAL on a bound name): it raises no error, leaves the depth
\* and every other binding as they were and adds no key; with a value on
\* top, the name is rebound to that value and the stack is unchanged.
C15_SetBoundGlobal ==
    [][(Executes /\ last'.op = OP_SET_GLOBAL
            /\ globals[last'.name] # NoValue)
          => /\ Completes
             /\ stackTop' = stackTop
             /\ \A n \in Names \ {last'.name} : globals'[n] = globals[n]
             /\ last'.args[1] # "UNKNOWN"
                   => (globals'[last'.name] = OperandB /\ stack' = stack)]_vars

\* C15 witness: a SET_GLOBAL has rebound a bound global to the value on
\* top, not nil, which is still on the stack.
C15_Witness ==
    /\ last.op = OP_SET_GLOBAL
    /\ ~last.fault
    /\ last.args # <<"VAL_NIL">>
    /\ last.args # <<"UNKNOWN">>
    /\ last.top = stackTop
    /\ Len(stack) = stackTop
    /\ globals[last.name] = stack[stackTop]

\* C16 (truthiness): NOT never raises a runtime error; it replaces the
\* value v on top by Bool(true) when v is nil or Bool(false) and by
\* Bool(false) for every other value.
C16_NotTruthiness ==
    [][(Executes /\ last'.op = OP_NOT)
          => /\ ~last'.fault
             /\ last'.args[1] # "UNKNOWN"
                   => /\ Completes
                      /\ Replaces(1, BOOL_VAL(OperandB \in
                                       {NIL_VAL, BOOL_VAL(FALSE)}))]_vars

\* C16 witness: a NOT has replaced an int by Bool(false).
C16_Witness ==
    /\ last.op = OP_NOT
    /\ last.args = <<"VAL_INT">>
    /\ ~last.fault
    /\ stackTop >= 1 /\ Len(stack) = stackTop
    /\ stack[stackTop] = BOOL_VAL(FALSE)

\* a op b on the integers, for operands whose result int holds.
ExactOp(op, a, b) ==
    CASE op = OP_ADD -> a + b
      [] op = OP_SUBTRACT -> a - b
      [] op = OP_MULTIPLY -> a * b

\* C17 (integer arithmetic width): ADD, SUBTRACT and MULTIPLY on two ints
\* replace them by the int a op b computed on 64 bits. Two operands that
\* int holds have a 64-bit result that does not wrap; what the code pushes
\* is an int, so it can be that result only if the result lies in the
\* range of int, and is then the exact a op b. Fails: the result is
\* computed in int, 32 bits wide, and 65536 * 65536 overflows it.
C17_IntegerWidth ==
    [][(Executes /\ last'.op \in {OP_ADD, OP_SUBTRACT, OP_MULTIPLY}
            /\ last'.args = <<"VAL_INT", "VAL_INT">>)
          => /\ Completes
             /\ IntInRange(last'.op, AS_INT(OperandA), AS_INT(OperandB))
             /\ Replaces(2, INT_VAL(ExactOp(last'.op, AS_INT(OperandA),
                                            AS_INT(OperandB))))]_vars

\* The bytes the opcode table gives an instruction: the opcode byte, and
\* one operand byte for CONSTANT and the three global opcodes.
Width(op) == IF op \in {OP_CONSTANT} \cup OperandOps THEN 2 ELSE 1

\* C18 (termination): every instruction executed through a valid cursor
\* leaves the cursor valid and Width(op) bytes further, and an instruction
\* that stays within the stack does not end the run in a trap, so that a
\* run over a stream closed by RETURN goes on until it stops with
\* INTERPRET_OK or INTERPRET_RUNTIME_ERROR. Fails: a push to the slot below
\* the base of the stack writes over vm.ip.
C18_CursorAdvances ==
    [][(Executes /\ ipValid)
          => /\ ipValid'
             /\ ip' = ip + Width(last'.op)
             /\ WithinStack
                   => \/ pc' = "run"
                      \/ /\ pc' = "idle"
                         /\ result' \in {"INTERPRET_OK",
                                         "INTERPRET_RUNTIME_ERROR"}]_vars

\* C19 (sources of runtime errors): whenever interpret() has returned
\* INTERPRET_RUNTIME_ERROR, the last instruction executed raised it and is
\* an ADD, SUBTRACT, MULTIPLY or DIVIDE reporting the mismatch of two
\* operands, a NEGATE reporting the mismatch of one, or a GET_GLOBAL or
\* SET_GLOBAL reporting an undefined variable; no other opcode raises.
C19_RuntimeErrorSources ==
    /\ result = "INTERPRET_RUNTIME_ERROR" => (pc = "idle" /\ last.fault)
    /\ last.fault =>
          \/ last.op \in ArithmeticOps /\ err.msg = TypeMismatch2
          \/ last.op = OP_NEGATE /\ err.msg = TypeMismatch1
          \/ last.op \in {OP_GET_GLOBAL, OP_SET_GLOBAL}
                /\ err.msg = UndefinedVariable

\* C19 witness: the second call of interpret() has ended with a runtime
\* error at a DIVIDE.
C19_Witness ==
    /\ result = "INTERPRET_RUNTIME_ERROR"
    /\ runs = 2
    /\ last.fault
    /\ last.op = OP_DIVIDE

\* C20 (state carried across interpret calls): an instruction that raises
\* a runtime error empties the stack and leaves the globals and the output
\* as they were; between two calls nothing changes; and a call of
\* interpret() leaves the globals as they were and, when it enters run(),
\* starts at offset 0 of the chunk compiled for it. Hence a binding made
\* before a fault is bound to the same value in the next call.
C20_StateAcrossCalls ==
    [][/\ (Executes /\ last'.fault)
             => /\ stackTop' = 0 /\ stack' = <<>>
                /\ globals' = globals
                /\ out' = out
       /\ pc = "idle"
             => /\ runs' = runs + 1
                /\ globals' = globals
                /\ pc' = "run"
                      => (ip' = 0 /\ ipValid' /\ chunk' \in Chunks)]_vars

\* C20 witness: the call after a run that ended with a runtime error is at
\* offset 0 of its chunk, the stack is empty and a global bound before the
\* fault is bound.
C20_Witness ==
    /\ pc = "run"
    /\ runs = 2
    /\ ip = 0
    /\ last = NoInstr
    /\ err.msg = UndefinedVariable
    /\ stackTop = 0
    /\ globals[<<120>>] = NIL_VAL
    /\ globals[<<121>>] = NoValue

====
